---- MODULE Spec2Model ----
(***************************************************************************)
(* Agent activity stream of the AI-Onboarding frontend: the SSE decoders   *)
(* and the step reducers of DocViewer (document generation) and            *)
(* ChatInterface (chat).                                                   *)
(*                                                                         *)
(* Conventions                                                             *)
(*  - a JavaScript `undefined` field is the string "undefined";            *)
(*  - crypto.randomUUID() and the Date.now()/Math.random() based ids of    *)
(*    the chat are fresh identifiers, drawn from the counter `uuid`;       *)
(*  - the `timestamp` field of a step (Date.now()) is read by no handler   *)
(*    and is not modelled;                                                 *)
(*  - the wire text is ASCII, one character per byte, held as a sequence   *)
(*    of one-character strings.                                            *)
(***************************************************************************)
EXTENDS Integers, Sequences, FiniteSets, TLC

VARIABLES
    site,              \* the call site a behaviour is about
    \* DocViewer (src/unnamed/part_003)
    agentSteps,        \* useState<AgentStep[]>([])
    doc,               \* useState<Document | null>(null)
    error,             \* useState<string | null>(null)
    \* ChatInterface.handleSubmit (src/frontend/components/video-viewer.tsx)
    steps,             \* const steps: AgentStep[] = []
    currentSteps,      \* useState<AgentStep[]>([])
    assistantContent,  \* let assistantContent = ''
    msgContent,        \* content of the assistant message in `messages`
    msgAgentSteps,     \* agentSteps of the assistant message in `messages`
    sessionId,         \* useState<string | null>(null)
    sessionError,      \* useState<string | null>(null)
    uuid,              \* number of fresh identifiers handed out
    \* history variables (not program state)
    last,              \* the frame applied by the latest step
    nApplied,          \* number of frames applied
    nCalls,            \* number of tool_call frames applied
    terminal,          \* a complete or error frame has been applied
    origin,            \* origin[i]: the frame that created step i
    hist,              \* the frames applied, in order (scenario runs only)
    \* the SSE read loops (generateDoc, handleCreateVideo, handleCreateNew, handleSubmit)
    stream,            \* the text the server sends on the response body
    pos,               \* how much of it reader.read() has returned so far
    buffer,            \* let buffer = ''
    delivered,         \* the (label, payload) pairs handed to the event handler
    cuts,              \* history: the stream offsets at which the chunks ended
    \* the session drivers (generateDoc, handleSubmit) and DocViewer's effect
    isLoading,         \* useState(false), true while a session runs
    phase,             \* where the driver is: "reading", "ended", "failed"
    target,            \* "current", or what the effect for a new target has done
    fault,             \* "render" once a state updater threw while React rendered
    \* several generateDoc calls on one DocViewer (SpecRegen)
    pc,                \* pc[s]: where call s of handleRegenerate / generateDoc is
    owner,             \* history: owner[i] is the call whose frame created step i
    started,           \* history: the generateDoc calls in the order they started
    \* DocSidebar (src/unnamed/part_003)
    activeDoc,         \* useState<DocType | 'chat' | string>('overview')
    customDocs,        \* useState<Document[]>([]), as the set of the documents' ids
    serverDocs,        \* the custom documents the backend stores
    deletes,           \* the handleDeleteCustomDoc calls awaiting api.delete
    refreshing,        \* the responses of the fetchDocuments calls awaiting api.get
    nDocs,             \* the number of custom documents the backend has created
    \* VideoSidebar (src/unnamed/part_003)
    isCreating,        \* useState(false) of VideoSidebar
    generationProgress, \* useState<GenerationProgress | null>(null), its message
    videos,            \* useState<Video[]>([]), as the set of the videos' ids
    newVideoId,        \* let newVideoId: string | null = null
    activeVideoId,     \* useState<string | null>(null)
    selectedDocId,     \* useState<string | null>(null)
    fetchingVideos     \* the fetchVideos calls awaiting api.get

docVars  == <<agentSteps, doc, error>>
chatVars == <<steps, currentSteps, assistantContent, msgContent, msgAgentSteps, sessionId,
             sessionError>>
histVars == <<last, nApplied, nCalls, terminal, origin, hist>>
decVars  == <<stream, pos, buffer, delivered, cuts>>
redVars  == <<docVars, chatVars, uuid, histVars>>
sessVars == <<isLoading, phase, target, fault>>
callVars == <<pc, owner, started>>
sideVars == <<activeDoc, customDocs, serverDocs, deletes, refreshing, nDocs>>
videoVars == <<isCreating, generationProgress, videos, newVideoId, activeVideoId, selectedDocId,
               fetchingVideos>>
panelVars == <<sideVars, videoVars>>
vars     == <<site, redVars, decVars, sessVars, callVars, panelVars>>

Undefined == "undefined"
Null      == "null"

-----------------------------------------------------------------------------
(* Bounds *)

MaxFrames   == 4   \* frames applied in one session (Spec)
MaxChunks   == 3   \* chunks read from one stream (SpecDecoder)
ScenarioLen == 5   \* frames applied in one session (SpecScenario)

-----------------------------------------------------------------------------
(* Frames: (label, parsed payload) pairs, the payload shapes of the wire   *)
(* contract.                                                               *)

Tools     == {"listTree", "readFile"}
Ids       == {Undefined, "1", "2"}
Messages  == {"Exploring", "Reading src/"}
Summaries == {"12 items", "3 matches"}

ArgsOf(tool) == IF tool = "listTree" THEN "{path:.}" ELSE "{path:README.md}"
OutputOf(summary) == "full:" \o summary

StatusFrame(m)   == [label |-> "status",   data |-> [message |-> m]]
ThinkingFrame(t) == [label |-> "thinking", data |-> [text |-> t]]
TextFrame(t)     == [label |-> "text",     data |-> [text |-> t]]
ToolCallFrame(t, i) ==
    [label |-> "tool_call", data |-> [tool |-> t, args |-> ArgsOf(t), id |-> i]]
ToolResultFrame(t, i, s) ==
    [label |-> "tool_result",
     data  |-> [tool |-> t, id |-> i, summary |-> s, output |-> OutputOf(s)]]
CompleteFrame(d) == [label |-> "complete", data |-> [document |-> d]]
ErrorFrame(m)    == [label |-> "error",    data |-> [message |-> m]]
SessionFrame(s)  == [label |-> "session",  data |-> [sessionId |-> s]]
NoFrame          == [label |-> "none",     data |-> [none |-> Undefined]]

CallFrames   == {ToolCallFrame(t, i) : t \in Tools, i \in Ids}
ResultFrames == {ToolResultFrame(t, i, s) : t \in Tools, i \in Ids, s \in Summaries}

DocFrames ==
    {StatusFrame(m) : m \in Messages} \cup {ThinkingFrame(m) : m \in Messages}
    \cup CallFrames \cup ResultFrames
    \cup {CompleteFrame("doc-1"), ErrorFrame("boom")}

ChatFrames ==
    {ThinkingFrame(m) : m \in Messages} \cup {TextFrame("Hi"), TextFrame(" there")}
    \cup CallFrames \cup ResultFrames
    \cup {CompleteFrame(Undefined), ErrorFrame("boom"), SessionFrame("s-1")}

-----------------------------------------------------------------------------
(* Steps *)

UUID(n) == "uuid-" \o ToString(n)

\* An AgentStep with every optional field absent.
BlankStep ==
    [id |-> Undefined, type |-> Undefined, text |-> Undefined,
     toolName |-> Undefined, input |-> Undefined, status |-> Undefined,
     toolCallId |-> Undefined, output |-> Undefined, fullOutput |-> Undefined]

\* { ...step, ...updates }
Spread(step, updates) ==
    [k \in DOMAIN step |-> IF k \in DOMAIN updates THEN updates[k] ELSE step[k]]

\* prev.map(s => ({ ...s, status }))
MapStatus(ss, status) == [i \in DOMAIN ss |-> [ss[i] EXCEPT !.status = status]]

IsThinking(s)    == s.type = "thinking"
IsToolCall(s)    == s.type = "tool-call"
IsRunningTool(s) == s.type = "tool-call" /\ s.status = "running"

\* The last / first index of a set of indices (0: none), as
\* [...prev].reverse().find(...) and steps.findIndex(...) pick it.
Last(S)  == IF S = {} THEN 0 ELSE CHOOSE i \in S : \A j \in S : j <= i
First(S) == IF S = {} THEN 0 ELSE CHOOSE i \in S : \A j \in S : i <= j

Thinkings(ss)    == {i \in DOMAIN ss : IsThinking(ss[i])}
ToolCalls(ss)    == {i \in DOMAIN ss : IsToolCall(ss[i])}
RunningTools(ss) == {i \in DOMAIN ss : IsRunningTool(ss[i])}

\* steps.filter(s => s.type !== 'thinking')
WithoutThinking(ss) ==
    LET F[i \in 0..Len(ss)] ==
            IF i = 0 THEN <<>>
            ELSE IF ~IsThinking(ss[i]) THEN Append(F[i - 1], ss[i]) ELSE F[i - 1]
    IN  F[Len(ss)]

-----------------------------------------------------------------------------
(* DocViewer.handleStreamEvent: one operator per case of the switch.  `st`  *)
(* is [agentSteps, doc, error, uuid]; the queued functional updates of     *)
(* setAgentSteps are applied in the order they were queued.                *)

\* addAgentStep: append the step with a fresh id
addAgentStep(st, step) ==
    [st EXCEPT !.agentSteps = Append(@, Spread(step, [id |-> UUID(st.uuid + 1)])),
               !.uuid = @ + 1]

DocStatus(st, data) ==
    addAgentStep(st, Spread(BlankStep,
        [type |-> "thinking", text |-> data.message, status |-> "running"]))

\* Mutant of DocToolCall: a call of a tool that is already running is folded
\* into the running step instead of appending a step.
DocToolCallDedup(st, data) ==
    IF \E i \in RunningTools(st.agentSteps) : st.agentSteps[i].toolName = data.tool
    THEN st
    ELSE addAgentStep([st EXCEPT !.uuid = @ + 1], Spread(BlankStep,
                [type |-> "tool-call", toolName |-> data.tool, input |-> data.args,
                 status |-> "running", toolCallId |-> UUID(st.uuid + 1)]))

DocToolCall(st, data) ==
    LET withKey == [st EXCEPT !.uuid = @ + 1]   \* toolCallId: crypto.randomUUID()
    IN  addAgentStep(withKey, Spread(BlankStep,
            [type |-> "tool-call", toolName |-> data.tool, input |-> data.args,
             status |-> "running", toolCallId |-> UUID(st.uuid + 1)]))

\* Mutant of DocToolResult: a result that finds no running tool call is
\* kept as a completed step of its own.
DocToolResultOrphan(st, data) ==
    LET prev == st.agentSteps
        lastToolCall == Last(RunningTools(prev))
    IN  IF lastToolCall # 0
        THEN [st EXCEPT !.agentSteps =
                [i \in DOMAIN prev |->
                    IF prev[i].id = prev[lastToolCall].id
                    THEN Spread(prev[i], [status |-> "completed",
                                          output |-> data.summary,
                                          fullOutput |-> data.output])
                    ELSE prev[i]]]
        ELSE addAgentStep(st, Spread(BlankStep,
                [type |-> "tool-call", toolName |-> data.tool, status |-> "completed",
                 output |-> data.summary, fullOutput |-> data.output]))

\* Mutant of DocToolResult: the result goes to the last tool-call step
\* whatever its status.
DocToolResultAnyStatus(st, data) ==
    LET prev == st.agentSteps
        lastToolCall == Last(ToolCalls(prev))
    IN  IF lastToolCall # 0
        THEN [st EXCEPT !.agentSteps =
                [i \in DOMAIN prev |->
                    IF prev[i].id = prev[lastToolCall].id
                    THEN Spread(prev[i], [status |-> "completed",
                                          output |-> data.summary,
                                          fullOutput |-> data.output])
                    ELSE prev[i]]]
        ELSE st

\* Mutant of DocToolResult: the resolved step takes the tool name of the
\* result frame.
DocToolResultRenames(st, data) ==
    LET prev == st.agentSteps
        lastToolCall == Last(RunningTools(prev))
    IN  IF lastToolCall # 0
        THEN [st EXCEPT !.agentSteps =
                [i \in DOMAIN prev |->
                    IF prev[i].id = prev[lastToolCall].id
                    THEN Spread(prev[i], [status |-> "completed",
                                          toolName |-> data.tool,
                                          output |-> data.summary,
                                          fullOutput |-> data.output])
                    ELSE prev[i]]]
        ELSE st

\* Mutant of DocToolResult: summary and full output written to each other's field.
DocToolResultSwapped(st, data) ==
    LET prev == st.agentSteps
        lastToolCall == Last(RunningTools(prev))
    IN  IF lastToolCall # 0
        THEN [st EXCEPT !.agentSteps =
                [i \in DOMAIN prev |->
                    IF prev[i].id = prev[lastToolCall].id
                    THEN Spread(prev[i], [status |-> "completed",
                                          output |-> data.output,
                                          fullOutput |-> data.summary])
                    ELSE prev[i]]]
        ELSE st

DocToolResult(st, data) ==
    LET prev == st.agentSteps
        lastToolCall == Last(RunningTools(prev))
    IN  IF lastToolCall # 0
        THEN [st EXCEPT !.agentSteps =
                [i \in DOMAIN prev |->
                    IF prev[i].id = prev[lastToolCall].id
                    THEN Spread(prev[i], [status |-> "completed",
                                          output |-> data.summary,
                                          fullOutput |-> data.output])
                    ELSE prev[i]]]
        ELSE st

DocThinking(st, data) ==
    LET prev == st.agentSteps
        lastThinking == Last(Thinkings(prev))
    IN  IF lastThinking # 0
        THEN [st EXCEPT !.agentSteps =
                [i \in DOMAIN prev |->
                    IF prev[i].id = prev[lastThinking].id
                    THEN Spread(prev[i], [text |-> data.text])
                    ELSE prev[i]]]
        ELSE st

\* Mutant of DocComplete: only the tool-call steps are swept.
DocCompleteToolsOnly(st, data) ==
    [st EXCEPT !.doc = data.document,
               !.agentSteps = [i \in DOMAIN @ |->
                    IF @[i].type = "tool-call"
                    THEN [@[i] EXCEPT !.status = "completed"] ELSE @[i]]]

DocComplete(st, data) ==
    [st EXCEPT !.doc = data.document,
               !.agentSteps = MapStatus(@, "completed")]

DocError(st, data) ==
    [st EXCEPT !.error = data.message,
               !.agentSteps = MapStatus(@, "error")]

handleStreamEvent(st, event, data) ==
    CASE event = "status"      -> DocStatus(st, data)
      [] event = "tool_call"   -> DocToolCall(st, data)
      [] event = "tool_result" -> DocToolResult(st, data)
      [] event = "thinking"    -> DocThinking(st, data)
      [] event = "complete"    -> DocComplete(st, data)
      [] event = "error"       -> DocError(st, data)
      [] OTHER                 -> st

-----------------------------------------------------------------------------
(* ChatInterface.handleSubmit: the switch on currentEvent, one operator    *)
(* per case.  `cs` is [steps, currentSteps, assistantContent, msgContent,  *)
(* msgAgentSteps, sessionId, uuid].                                        *)

ChatSession(cs, data) ==
    IF data.sessionId # Undefined /\ data.sessionId # "" /\ data.sessionId # cs.sessionId
    THEN [cs EXCEPT !.sessionId = data.sessionId]
    ELSE cs

ChatThinking(cs, data) ==
    LET thinkingStep == Spread(BlankStep,
            [id |-> "thinking-" \o ToString(cs.uuid + 1), type |-> "thinking",
             text |-> data.text, status |-> "running"])
        thinkingIdx == First(Thinkings(cs.steps))
        old == cs.steps[thinkingIdx].text
        next == IF thinkingIdx # 0
                THEN [cs.steps EXCEPT ![thinkingIdx] =
                        Spread(@, [text |-> (IF old = Undefined THEN "" ELSE old)
                                            \o data.text])]
                ELSE Append(cs.steps, thinkingStep)
    IN  [cs EXCEPT !.steps = next, !.currentSteps = next,
                   !.uuid = IF thinkingIdx # 0 THEN @ ELSE @ + 1]

ChatToolCall(cs, data) ==
    LET toolCallStep == Spread(BlankStep,
            [id |-> "tool-" \o ToString(cs.uuid + 1), type |-> "tool-call",
             toolName |-> data.tool, input |-> data.args, status |-> "running"])
        next == Append(cs.steps, toolCallStep)
    IN  [cs EXCEPT !.steps = next, !.currentSteps = next, !.uuid = @ + 1]

\* Mutant of ChatToolResult: the oldest running step of the tool is resolved.
ChatToolResultOldest(cs, data) ==
    LET i == First({k \in RunningTools(cs.steps) : cs.steps[k].toolName = data.tool})
        next == IF i # 0
                THEN [cs.steps EXCEPT ![i] =
                        Spread(@, [output |-> data.summary,
                                   fullOutput |-> data.output,
                                   status |-> "completed"])]
                ELSE cs.steps
    IN  [cs EXCEPT !.steps = next, !.currentSteps = next]

ChatToolResult(cs, data) ==
    LET i == Last({k \in RunningTools(cs.steps) : cs.steps[k].toolName = data.tool})
        next == IF i # 0
                THEN [cs.steps EXCEPT ![i] =
                        Spread(@, [output |-> data.summary,
                                   fullOutput |-> data.output,
                                   status |-> "completed"])]
                ELSE cs.steps
    IN  [cs EXCEPT !.steps = next, !.currentSteps = next]

\* Mutant of ChatText: the new text is put in front of the accumulated text.
ChatTextPrepend(cs, data) ==
    LET content == data.text \o cs.assistantContent
    IN  [cs EXCEPT !.assistantContent = content,
                   !.msgContent = content,
                   !.msgAgentSteps = cs.steps]

ChatText(cs, data) ==
    LET content == cs.assistantContent \o data.text
    IN  [cs EXCEPT !.assistantContent = content,
                   !.msgContent = content,
                   !.msgAgentSteps = cs.steps]

ChatComplete(cs, data) ==
    LET swept == [i \in DOMAIN cs.steps |->
                    IF cs.steps[i].status = "running"
                    THEN [cs.steps[i] EXCEPT !.status = "completed"]
                    ELSE cs.steps[i]]
        finalSteps == WithoutThinking(swept)
    IN  [cs EXCEPT !.steps = swept,
                   !.currentSteps = <<>>,
                   !.msgContent = cs.assistantContent,
                   !.msgAgentSteps = finalSteps]

\* case 'error': console.error only
ChatError(cs, data) == cs

chatEvent(cs, event, data) ==
    CASE event = "session"     -> ChatSession(cs, data)
      [] event = "thinking"    -> ChatThinking(cs, data)
      [] event = "tool_call"   -> ChatToolCall(cs, data)
      [] event = "tool_result" -> ChatToolResult(cs, data)
      [] event = "text"        -> ChatText(cs, data)
      [] event = "complete"    -> ChatComplete(cs, data)
      [] event = "error"       -> ChatError(cs, data)
      [] OTHER                 -> cs

-----------------------------------------------------------------------------
(* The reducers fed one frame at a time.                                   *)

DocState  == [agentSteps |-> agentSteps, doc |-> doc, error |-> error, uuid |-> uuid]
ChatState ==
    [steps |-> steps, currentSteps |-> currentSteps,
     assistantContent |-> assistantContent, msgContent |-> msgContent,
     msgAgentSteps |-> msgAgentSteps, sessionId |-> sessionId, uuid |-> uuid]

\* The history variables after frame f took the timeline from `before` to `after`.
Record(f, before, after) ==
    /\ last' = f
    /\ nApplied' = nApplied + 1
    /\ nCalls' = IF f.label = "tool_call" THEN nCalls + 1 ELSE nCalls
    /\ terminal' = (terminal \/ f.label \in {"complete", "error"})
    /\ origin' = IF Len(after) > Len(before) THEN Append(origin, f) ELSE origin

ApplyDoc(f) ==
    LET r == handleStreamEvent(DocState, f.label, f.data)
    IN  /\ agentSteps' = r.agentSteps
        /\ doc' = r.doc
        /\ error' = r.error
        /\ uuid' = r.uuid
        /\ Record(f, agentSteps, r.agentSteps)
        /\ UNCHANGED <<site, chatVars, decVars, sessVars>>

ApplyChat(f) ==
    LET r == chatEvent(ChatState, f.label, f.data)
    IN  /\ steps' = r.steps
        /\ currentSteps' = r.currentSteps
        /\ assistantContent' = r.assistantContent
        /\ msgContent' = r.msgContent
        /\ msgAgentSteps' = r.msgAgentSteps
        /\ sessionId' = r.sessionId
        /\ uuid' = r.uuid
        /\ Record(f, steps, r.steps)
        /\ UNCHANGED <<site, docVars, sessionError, decVars, sessVars>>

\* State after generateDoc's setAgentSteps([]) / handleSubmit's session setup.
InitReducer ==
    /\ agentSteps = <<>> /\ doc = Null /\ error = Null
    /\ steps = <<>> /\ currentSteps = <<>> /\ assistantContent = ""
    /\ msgContent = "" /\ msgAgentSteps = <<>> /\ sessionId = Null
    /\ sessionError = Null
    /\ uuid = 0
    /\ last = NoFrame /\ nApplied = 0 /\ nCalls = 0 /\ terminal = FALSE
    /\ origin = <<>> /\ hist = <<>>

\* Nothing is being read.
IdleDecoder ==
    stream = <<>> /\ pos = 0 /\ buffer = <<>> /\ delivered = <<>> /\ cuts = <<>>

MaxSessions == 2   \* calls of handleRegenerate / generateDoc on one DocViewer
Sessions == 1..MaxSessions

\* DocSidebar and VideoSidebar as mounted, with nothing in flight.
IdlePanels ==
    /\ activeDoc = "overview" /\ customDocs = {} /\ serverDocs = {}
    /\ deletes = {} /\ refreshing = {} /\ nDocs = 0
    /\ isCreating = FALSE
    /\ generationProgress = Null /\ videos = {} /\ newVideoId = Null
    /\ activeVideoId = Null /\ selectedDocId = Null /\ fetchingVideos = 0

\* No call is tracked apart from the one session a behaviour is about.
NoCalls ==
    /\ pc = [s \in Sessions |-> "idle"] /\ owner = <<>> /\ started = <<>>
    /\ IdlePanels

\* The driver has set isLoading and entered its read loop.
OpenSession ==
    /\ isLoading = TRUE /\ phase = "reading" /\ target = "current" /\ fault = "none"
    /\ NoCalls

Init == site \in {"doc", "chat"} /\ InitReducer /\ IdleDecoder /\ OpenSession

DocFrame ==
    /\ site = "doc" /\ nApplied < MaxFrames
    /\ \E f \in DocFrames : ApplyDoc(f)
    /\ UNCHANGED hist
    /\ UNCHANGED <<callVars, panelVars>>

ChatFrame ==
    /\ site = "chat" /\ nApplied < MaxFrames
    /\ \E f \in ChatFrames : ApplyChat(f)
    /\ UNCHANGED hist
    /\ UNCHANGED <<callVars, panelVars>>

Next == DocFrame \/ ChatFrame

Spec == Init /\ [][Next]_vars

-----------------------------------------------------------------------------
(* The document-generation reducer fed the frames of the specification's   *)
(* worked scenarios, with the applied frames kept in `hist`.               *)

ScenarioFrames ==
    {StatusFrame("Starting"), StatusFrame("Exploring"), StatusFrame("Reading src/"),
     ToolCallFrame("listTree", "1"), ToolCallFrame("listTree", "2"),
     ToolCallFrame("readFile", "2"),
     ToolResultFrame("listTree", "1", "12 items"),
     CompleteFrame("doc-1")}

ChatScenarioFrames ==
    {ThinkingFrame("Exploring"), ThinkingFrame("Reading src/"),
     ToolCallFrame("listTree", "1"), ToolCallFrame("listTree", "2"),
     ToolResultFrame("listTree", "1", "12 items"),
     TextFrame("Hi"), TextFrame(" there"), CompleteFrame(Undefined), ErrorFrame("boom")}

InitScenario == site \in {"doc", "chat"} /\ InitReducer /\ IdleDecoder /\ OpenSession

ScenarioDocFrame ==
    /\ site = "doc" /\ nApplied < ScenarioLen
    /\ \E f \in ScenarioFrames : ApplyDoc(f) /\ hist' = Append(hist, f)
    /\ UNCHANGED <<callVars, panelVars>>

ScenarioChatFrame ==
    /\ site = "chat" /\ nApplied < ScenarioLen
    /\ \E f \in ChatScenarioFrames : ApplyChat(f) /\ hist' = Append(hist, f)
    /\ UNCHANGED <<callVars, panelVars>>

NextScenario == ScenarioDocFrame \/ ScenarioChatFrame

SpecScenario == InitScenario /\ [][NextScenario]_vars

-----------------------------------------------------------------------------
(* The session drivers: generateDoc and handleSubmit around their read     *)
(* loops, and DocViewer's effect for a new target.                         *)
(*                                                                         *)
(* A payload may be the JSON text `null`: JSON.parse returns null and a    *)
(* property read on it throws a TypeError.  The read loops keep            *)
(* JSON.parse and the handler call in one try block, so a TypeError thrown *)
(* while the handler runs is caught there.  A function passed to a React   *)
(* state setter is not run by the handler: React runs it when it renders   *)
(* the component, outside the try block.                                   *)

SessionLen == 4   \* frames handed to the handler in one session (SpecSession)

NullData == [null |-> TRUE]                  \* JSON.parse('null')
IsNull(data) == DOMAIN data = {"null"}
NullFrame(label) == [label |-> label, data |-> NullData]

SessionDocFrames ==
    {StatusFrame("Exploring"), ToolCallFrame("listTree", "1"),
     ToolResultFrame("listTree", "1", "12 items"),
     CompleteFrame("doc-1"), ErrorFrame("boom"),
     NullFrame("status"), NullFrame("tool_result"), NullFrame("thinking")}

SessionChatFrames ==
    {ThinkingFrame("Exploring"), ToolCallFrame("listTree", "1"),
     ToolResultFrame("listTree", "1", "12 items"), TextFrame("Hi"),
     CompleteFrame(Undefined), ErrorFrame("boom"),
     NullFrame("tool_result"), NullFrame("complete")}

\* handleStreamEvent(event, null) of DocViewer: 'status', 'tool_call',
\* 'complete' and 'error' read data while the handler runs (caught, nothing
\* set); 'tool_result' and 'thinking' read it inside the function given to
\* setAgentSteps, and only on the branch that found a step.
NullFaultsInRender(st, event) ==
    \/ event = "tool_result" /\ Last(RunningTools(st.agentSteps)) # 0
    \/ event = "thinking"    /\ Last(Thinkings(st.agentSteps)) # 0

\* The switch of handleSubmit on a null payload: 'complete' reads no field;
\* 'tool_result' reads data.tool at the first tool-call step it visits and
\* otherwise reaches setCurrentSteps([...steps]); every other case throws
\* before it changes anything.
chatEventNull(cs, event) ==
    CASE event = "complete" -> ChatComplete(cs, NullData)
      [] event = "tool_result" /\ ToolCalls(cs.steps) = {} ->
            [cs EXCEPT !.currentSteps = cs.steps]
      [] OTHER -> cs

\* The history variables after a frame that created no step.
RecordHandled(f, isTerminal) ==
    /\ last' = f
    /\ nApplied' = nApplied + 1
    /\ terminal' = (terminal \/ isTerminal)
    /\ UNCHANGED <<nCalls, origin, hist>>

ApplyDocNull(f) ==
    /\ fault' = IF NullFaultsInRender(DocState, f.label) THEN "render" ELSE fault
    /\ RecordHandled(f, FALSE)
    /\ UNCHANGED <<site, docVars, chatVars, uuid, decVars, isLoading, phase, target>>

ApplyChatNull(f) ==
    LET r == chatEventNull(ChatState, f.label)
    IN  /\ steps' = r.steps
        /\ currentSteps' = r.currentSteps
        /\ msgContent' = r.msgContent
        /\ msgAgentSteps' = r.msgAgentSteps
        /\ RecordHandled(f, f.label = "complete")
        /\ UNCHANGED <<site, docVars, assistantContent, sessionId, sessionError, uuid,
                       decVars, sessVars>>

\* The loop reads on and hands the next frame to the handler.  Once React
\* has failed to render DocViewer its state is gone and setters do nothing.
Reading == phase = "reading" /\ fault = "none" /\ nApplied < SessionLen

SessionDocFrame ==
    /\ site = "doc" /\ Reading
    /\ \E f \in SessionDocFrames :
        IF IsNull(f.data) THEN ApplyDocNull(f) ELSE (ApplyDoc(f) /\ UNCHANGED hist)
    /\ UNCHANGED <<callVars, panelVars>>

SessionChatFrame ==
    /\ site = "chat" /\ Reading
    /\ \E f \in SessionChatFrames :
        IF IsNull(f.data) THEN ApplyChatNull(f) ELSE (ApplyChat(f) /\ UNCHANGED hist)
    /\ UNCHANGED <<callVars, panelVars>>

\* reader.read() resolves with done: the loop breaks and `finally` runs.
DocStreamEnd ==
    /\ site = "doc" /\ phase = "reading"
    /\ phase' = "ended"
    /\ isLoading' = FALSE
    /\ UNCHANGED <<site, redVars, decVars, target, fault>>
    /\ UNCHANGED <<callVars, panelVars>>

ChatStreamEnd ==
    /\ site = "chat" /\ phase = "reading"
    /\ phase' = "ended"
    /\ isLoading' = FALSE
    /\ currentSteps' = <<>>
    /\ UNCHANGED <<site, docVars, steps, assistantContent, msgContent, msgAgentSteps,
                   sessionId, sessionError, uuid, histVars, decVars, target, fault>>
    /\ UNCHANGED <<callVars, panelVars>>

TransportMessage == "network error"          \* err.message of the rejection
Apology == "Sorry, I encountered an error. Please try again."

\* reader.read() rejects: generateDoc's `catch` and `finally`.
DocReadFail ==
    /\ site = "doc" /\ phase = "reading"
    /\ phase' = "failed"
    /\ error' = TransportMessage
    /\ agentSteps' = MapStatus(agentSteps, "error")
    /\ isLoading' = FALSE
    /\ UNCHANGED <<site, doc, chatVars, uuid, histVars, decVars, target, fault>>
    /\ UNCHANGED <<callVars, panelVars>>

\* reader.read() rejects: handleSubmit's `catch` replaces the assistant
\* message by a new one that has no agentSteps, `finally` clears currentSteps.
ChatReadFail ==
    /\ site = "chat" /\ phase = "reading"
    /\ phase' = "failed"
    /\ msgContent' = Apology
    /\ msgAgentSteps' = <<>>
    /\ currentSteps' = <<>>
    /\ isLoading' = FALSE
    /\ uuid' = uuid + 1
    /\ UNCHANGED <<site, docVars, steps, assistantContent, sessionId, sessionError,
                   histVars, decVars, target, fault>>
    /\ UNCHANGED <<callVars, panelVars>>

\* projectId, docType or customDocId changes while the stream is open: the
\* effect clears doc and agentSteps and starts fetchExistingDoc.
TargetChange ==
    /\ site = "doc" /\ phase = "reading" /\ target = "current" /\ fault = "none"
    /\ target' = "changing"
    /\ doc' = Null
    /\ agentSteps' = <<>>
    /\ origin' = <<>>
    /\ UNCHANGED <<site, error, chatVars, uuid, last, nApplied, nCalls, terminal, hist,
                   decVars, isLoading, phase, fault>>
    /\ UNCHANGED <<callVars, panelVars>>

ExistingDoc == "doc-2"                        \* the stored document of the new target

\* fetchExistingDoc settles: setDoc(found document), or nothing when there
\* is none or the request failed.
fetchExistingDoc ==
    /\ site = "doc" /\ target = "changing" /\ fault = "none"
    /\ target' = "changed"
    /\ doc' \in {doc, ExistingDoc}
    /\ UNCHANGED <<site, agentSteps, error, chatVars, uuid, histVars, decVars,
                   isLoading, phase, fault>>
    /\ UNCHANGED <<callVars, panelVars>>

NextSession ==
    \/ SessionDocFrame \/ SessionChatFrame
    \/ DocStreamEnd \/ ChatStreamEnd
    \/ DocReadFail \/ ChatReadFail
    \/ TargetChange \/ fetchExistingDoc

SpecSession == Init /\ [][NextSession]_vars

-----------------------------------------------------------------------------
(* One mounted DocViewer and the calls of generateDoc its buttons start:   *)
(* Generate and Retry call generateDoc, Regenerate calls handleRegenerate, *)
(* which awaits the delete of the shown document and then calls            *)
(* generateDoc.  Each call runs in its own closure (its own reader and     *)
(* buffer); doc, isLoading, error and agentSteps are the component's.      *)

RegenLen == 3   \* frames handled by the calls of one run (SpecRegen)

RegenFrames ==
    {StatusFrame("Exploring"), ToolCallFrame("listTree", "1"),
     ToolResultFrame("listTree", "1", "12 items"),
     CompleteFrame("doc-1"), ErrorFrame("boom")}

CachedDoc == "doc-cached"                     \* data.document of a JSON response
StartFailure == "Failed to start generation" \* thrown when !response.ok

\* After mount: the effect has cleared doc and agentSteps and started
\* fetchExistingDoc; nothing is loading.
InitRegen ==
    /\ site = "doc" /\ InitReducer /\ IdleDecoder
    /\ isLoading = FALSE /\ phase = "idle" /\ target = "changing" /\ fault = "none"
    /\ NoCalls

\* Call s is the next one to be made.
NextCall(s) == pc[s] = "idle" /\ \A r \in 1..(s - 1) : pc[r] # "idle"

\* generateDoc up to its first await: setIsLoading(true); setError(null);
\* setAgentSteps([]); fetch(...)
generateDoc(s) ==
    /\ isLoading' = TRUE
    /\ error' = Null
    /\ agentSteps' = <<>>
    /\ owner' = <<>>
    /\ origin' = <<>>
    /\ started' = Append(started, s)
    /\ pc' = [pc EXCEPT ![s] = "fetching"]
    /\ UNCHANGED <<site, chatVars, uuid, last, nApplied, nCalls, terminal, hist,
                   decVars, phase, target, fault, panelVars>>

\* The Generate and Retry buttons are rendered when there is no doc and
\* isLoading is false.
ClickGenerate ==
    /\ doc = Null /\ ~isLoading
    /\ \E s \in Sessions : NextCall(s) /\ generateDoc(s)
    /\ UNCHANGED doc

\* The Regenerate button is rendered when there is a doc and is disabled
\* while isLoading; handleRegenerate runs up to `await api.delete(...)`.
ClickRegenerate ==
    /\ doc # Null /\ ~isLoading
    /\ \E s \in Sessions : NextCall(s) /\ pc' = [pc EXCEPT ![s] = "deleting"]
    /\ UNCHANGED <<site, redVars, decVars, sessVars, owner, started, panelVars>>

\* The delete settles: setDoc(null) when it resolved, nothing when it
\* rejected; then generateDoc().
DeleteSettles ==
    \E s \in Sessions :
        /\ pc[s] = "deleting"
        /\ doc' \in {Null, doc}
        /\ generateDoc(s)

\* fetch resolves with the event stream: the read loop starts.
ResponseStream ==
    \E s \in Sessions :
        /\ pc[s] = "fetching"
        /\ pc' = [pc EXCEPT ![s] = "reading"]
        /\ UNCHANGED <<site, redVars, decVars, sessVars, owner, started, panelVars>>

\* fetch resolves with a JSON body that carries the cached document.
ResponseCached ==
    \E s \in Sessions :
        /\ pc[s] = "fetching"
        /\ pc' = [pc EXCEPT ![s] = "over"]
        /\ doc' = CachedDoc
        /\ isLoading' = FALSE
        /\ UNCHANGED <<site, agentSteps, error, chatVars, uuid, histVars, decVars,
                       phase, target, fault, owner, started, panelVars>>

\* `catch` and `finally` of the call s, thrown message m.
Caught(s, m) ==
    /\ pc' = [pc EXCEPT ![s] = "over"]
    /\ error' = m
    /\ agentSteps' = MapStatus(agentSteps, "error")
    /\ isLoading' = FALSE
    /\ UNCHANGED <<site, doc, chatVars, uuid, histVars, decVars,
                   phase, target, fault, owner, started, panelVars>>

\* fetch rejects or the response is not ok.
ResponseFails == \E s \in Sessions : pc[s] = "fetching" /\ Caught(s, StartFailure)

\* The read loop of call s hands a frame to handleStreamEvent.
RegenFrame ==
    \E s \in Sessions :
        /\ pc[s] = "reading" /\ nApplied < RegenLen
        /\ \E f \in RegenFrames : ApplyDoc(f)
        /\ owner' = IF Len(agentSteps') > Len(agentSteps) THEN Append(owner, s) ELSE owner
        /\ UNCHANGED <<hist, pc, started, panelVars>>

\* reader.read() of call s resolves with done: the loop breaks, `finally` runs.
RegenStreamEnd ==
    \E s \in Sessions :
        /\ pc[s] = "reading"
        /\ pc' = [pc EXCEPT ![s] = "over"]
        /\ isLoading' = FALSE
        /\ UNCHANGED <<site, redVars, decVars, phase, target, fault, owner, started,
                       panelVars>>

\* reader.read() of call s rejects.
RegenReadFail == \E s \in Sessions : pc[s] = "reading" /\ Caught(s, TransportMessage)

NextRegen ==
    \/ fetchExistingDoc
    \/ ClickGenerate \/ ClickRegenerate \/ DeleteSettles
    \/ ResponseStream \/ ResponseCached \/ ResponseFails
    \/ RegenFrame \/ RegenStreamEnd \/ RegenReadFail

SpecRegen == InitRegen /\ [][NextRegen]_vars

-----------------------------------------------------------------------------
(* DocSidebar: the selection activeDoc, the list customDocs, and the       *)
(* requests that change them.  A document is its id; the fields of         *)
(* DocSidebar that no selection reads (documents, isCreating, dialogOpen,  *)
(* the title fields, deletingDocId) are left out.                          *)

MaxCustomDocs == 2   \* custom documents created in one run (SpecSidebar)

\* const docTypes: the six built-in document types
BuiltIn == {"overview", "how_it_works", "training", "terms", "user_journeys",
            "troubleshooting"}

\* The id the backend gives its n-th custom document.
DocId(n) == "custom-" \o ToString(n)

\* After mount: 'overview' is selected, customDocs is empty and the effect's
\* fetchDocuments() awaits the list of the documents the backend stores.
InitSidebar ==
    /\ site = "doc" /\ InitReducer /\ IdleDecoder
    /\ isLoading = FALSE /\ phase = "idle" /\ target = "current" /\ fault = "none"
    /\ pc = [s \in Sessions |-> "idle"] /\ owner = <<>> /\ started = <<>>
    /\ activeDoc = "overview" /\ customDocs = {} /\ deletes = {}
    /\ nDocs \in 0..1
    /\ serverDocs = {DocId(n) : n \in 1..nDocs}
    /\ refreshing = {serverDocs}
    /\ isCreating = FALSE
    /\ generationProgress = Null /\ videos = {} /\ newVideoId = Null
    /\ activeVideoId = Null /\ selectedDocId = Null /\ fetchingVideos = 0

\* What no action of DocSidebar changes.
SidebarFrame == UNCHANGED <<site, redVars, decVars, sessVars, callVars, videoVars>>

\* fetchDocuments up to `await api.get(...)`: the response will carry the
\* custom documents stored when it is asked for.
fetchDocuments == refreshing' = refreshing \cup {serverDocs}

\* onClick={() => setActiveDoc(doc.value)} of a built-in entry,
\* onClick={() => setActiveDoc(doc.id)} of an entry of customDocs,
\* onClick={() => setActiveDoc('chat')}
Select ==
    /\ \E x \in BuiltIn \cup customDocs \cup {"chat"} : activeDoc' = x
    /\ UNCHANGED <<customDocs, serverDocs, deletes, refreshing, nDocs>>
    /\ SidebarFrame

\* handleCreateNew, at the 'complete' frame that carries data.document:
\* setCustomDocs(prev => [...prev, data.document]);
\* setActiveDoc(data.document.id); fetchDocuments()
CreateCompletes ==
    /\ nDocs < MaxCustomDocs
    /\ nDocs' = nDocs + 1
    /\ serverDocs' = serverDocs \cup {DocId(nDocs')}
    /\ customDocs' = customDocs \cup {DocId(nDocs')}
    /\ activeDoc' = DocId(nDocs')
    /\ refreshing' = refreshing \cup {serverDocs'}
    /\ UNCHANGED deletes
    /\ SidebarFrame

\* handleDeleteCustomDoc(docId) up to `await api.delete(...)`.  The handler
\* belongs to the render it was clicked in: `seen` is the activeDoc of that
\* render, which is what `activeDoc === docId` reads after the await.
SidebarDeleteClick ==
    /\ \E d \in customDocs :
        /\ \A op \in deletes : op.doc # d
        /\ deletes' = deletes \cup {[doc |-> d, seen |-> activeDoc]}
    /\ UNCHANGED <<activeDoc, customDocs, serverDocs, refreshing, nDocs>>
    /\ SidebarFrame

\* api.delete resolves: setCustomDocs(prev => prev.filter(d => d.id !== docId));
\* if (activeDoc === docId) setActiveDoc('overview'); fetchDocuments()
SidebarDeleteResolves ==
    /\ \E op \in deletes :
        /\ op.doc \in serverDocs
        /\ deletes' = deletes \ {op}
        /\ serverDocs' = serverDocs \ {op.doc}
        /\ customDocs' = customDocs \ {op.doc}
        /\ activeDoc' = IF op.seen = op.doc THEN "overview" ELSE activeDoc
        /\ refreshing' = refreshing \cup {serverDocs'}
    /\ UNCHANGED nDocs
    /\ SidebarFrame

\* api.delete rejects: `catch` does nothing.
SidebarDeleteRejects ==
    /\ \E op \in deletes : deletes' = deletes \ {op}
    /\ UNCHANGED <<activeDoc, customDocs, serverDocs, refreshing, nDocs>>
    /\ SidebarFrame

\* DocViewer.handleDelete of the custom document renderContent shows:
\* await api.delete(`/api/docs/${doc.id}`); setDoc(null);
\* onDocumentDeleted?.(), which is fetchDocuments.
ViewerDelete ==
    /\ activeDoc \in customDocs \cap serverDocs
    /\ serverDocs' = serverDocs \ {activeDoc}
    /\ refreshing' = refreshing \cup {serverDocs'}
    /\ UNCHANGED <<activeDoc, customDocs, deletes, nDocs>>
    /\ SidebarFrame

\* api.get of a fetchDocuments call resolves: setCustomDocs(customs)
RefreshArrives ==
    /\ \E r \in refreshing :
        /\ refreshing' = refreshing \ {r}
        /\ customDocs' = r
    /\ UNCHANGED <<activeDoc, serverDocs, deletes, nDocs>>
    /\ SidebarFrame

\* api.get of a fetchDocuments call rejects: the error is ignored.
RefreshFails ==
    /\ \E r \in refreshing : refreshing' = refreshing \ {r}
    /\ UNCHANGED <<activeDoc, customDocs, serverDocs, deletes, nDocs>>
    /\ SidebarFrame

NextSidebar ==
    \/ Select \/ CreateCompletes
    \/ SidebarDeleteClick \/ SidebarDeleteResolves \/ SidebarDeleteRejects
    \/ ViewerDelete
    \/ RefreshArrives \/ RefreshFails

SpecSidebar == InitSidebar /\ [][NextSidebar]_vars

-----------------------------------------------------------------------------
(* One stream session from its request to its end, for each of the three   *)
(* drivers: DocViewer.generateDoc, ChatInterface.handleSubmit and          *)
(* VideoSidebar.handleCreateVideo.  The driver has set its busy flag and   *)
(* awaits fetch; the request and every read settle, and the stream is      *)
(* finite (at most SessionLen frames).                                     *)

StartingVideo == "Starting video generation..."

VideoCompleteFrame(v) == [label |-> "complete", data |-> [video |-> v]]

VideoFrames ==
    {StatusFrame("Rendering"), VideoCompleteFrame("video-1"),
     VideoCompleteFrame(Undefined), ErrorFrame("boom"), NullFrame("complete"),
     NullFrame("status")}

\* handleStreamEvent of VideoSidebar: the message of generationProgress.
\* On a null payload 'complete' clears the progress before it reads
\* data.video; every other case throws before it sets anything.
VideoProgress(f) ==
    CASE f.label = "complete" -> Null
      [] f.label = "error" /\ ~IsNull(f.data) -> Null
      [] f.label = "status" /\ ~IsNull(f.data) -> f.data.message
      [] OTHER -> generationProgress

\* data.video of a 'complete' frame, Undefined when there is none.
VideoOf(f) ==
    IF f.label = "complete" /\ ~IsNull(f.data) THEN f.data.video ELSE Undefined

InitBusy ==
    /\ site \in {"doc", "chat", "video"} /\ InitReducer /\ IdleDecoder
    /\ isLoading = (site # "video")
    /\ phase = "fetching" /\ target = "current" /\ fault = "none"
    /\ pc = [s \in Sessions |-> "idle"] /\ owner = <<>> /\ started = <<>>
    /\ activeDoc = "overview" /\ customDocs = {} /\ serverDocs = {}
    /\ deletes = {} /\ refreshing = {} /\ nDocs = 0
    /\ isCreating = (site = "video")
    /\ generationProgress = IF site = "video" THEN StartingVideo ELSE Null
    /\ selectedDocId = IF site = "video" THEN "doc-1" ELSE Null
    /\ videos = {} /\ newVideoId = Null /\ activeVideoId = Null
    /\ fetchingVideos = 0

\* fetch resolves with an event stream: the read loop starts.
ResponseOpens ==
    /\ phase = "fetching"
    /\ phase' = "reading"
    /\ UNCHANGED <<site, redVars, decVars, isLoading, target, fault, callVars, panelVars>>

\* generateDoc: the response is JSON and carries the cached document:
\* setDoc(data.document); setIsLoading(false); return, then `finally`.
DocResponseCached ==
    /\ site = "doc" /\ phase = "fetching"
    /\ phase' = "ended"
    /\ doc' = CachedDoc
    /\ isLoading' = FALSE
    /\ UNCHANGED <<site, agentSteps, error, chatVars, uuid, histVars, decVars,
                   target, fault, callVars, panelVars>>

\* generateDoc: fetch rejects or the response is not ok: `catch`, `finally`.
DocStartFails ==
    /\ site = "doc" /\ phase = "fetching"
    /\ phase' = "failed"
    /\ error' = StartFailure
    /\ agentSteps' = MapStatus(agentSteps, "error")
    /\ isLoading' = FALSE
    /\ UNCHANGED <<site, doc, chatVars, uuid, histVars, decVars, target, fault,
                   callVars, panelVars>>

\* handleSubmit: fetch rejects or the response is not ok: `catch`, `finally`.
ChatStartFails ==
    /\ site = "chat" /\ phase = "fetching"
    /\ phase' = "failed"
    /\ msgContent' = Apology
    /\ msgAgentSteps' = <<>>
    /\ currentSteps' = <<>>
    /\ isLoading' = FALSE
    /\ uuid' = uuid + 1
    /\ UNCHANGED <<site, docVars, steps, assistantContent, sessionId, sessionError,
                   histVars, decVars, target, fault, callVars, panelVars>>

\* What the actions of handleCreateVideo leave alone.
VideoRest ==
    UNCHANGED <<site, docVars, chatVars, uuid, decVars, isLoading, target, fault,
                callVars, sideVars>>

\* `finally` of handleCreateVideo without setIsCreating(false).
VideoFinallyStaysBusy ==
    /\ isCreating' = isCreating
    /\ selectedDocId' = Null
    /\ fetchingVideos' = fetchingVideos + 1

\* `finally` of handleCreateVideo: setIsCreating(false);
\* setSelectedDocId(null); fetchVideos()
VideoFinally ==
    /\ isCreating' = FALSE
    /\ selectedDocId' = Null
    /\ fetchingVideos' = fetchingVideos + 1

\* `catch` of handleCreateVideo: setGenerationProgress(null), then `finally`.
VideoCaught ==
    /\ phase' = "failed"
    /\ generationProgress' = Null
    /\ VideoFinally
    /\ UNCHANGED <<videos, newVideoId, activeVideoId, histVars>>
    /\ VideoRest

\* handleCreateVideo: fetch rejects or the response is not ok.
VideoStartFails == site = "video" /\ phase = "fetching" /\ VideoCaught

\* The read loop of handleCreateVideo hands a frame to handleStreamEvent.
VideoFrame ==
    /\ site = "video" /\ Reading
    /\ \E f \in VideoFrames :
        /\ generationProgress' = VideoProgress(f)
        /\ IF VideoOf(f) # Undefined
           THEN videos' = videos \cup {VideoOf(f)} /\ newVideoId' = VideoOf(f)
           ELSE UNCHANGED <<videos, newVideoId>>
        /\ RecordHandled(f, f.label \in {"complete", "error"} /\ ~IsNull(f.data))
    /\ UNCHANGED <<isCreating, activeVideoId, selectedDocId, fetchingVideos, phase>>
    /\ VideoRest

\* reader.read() resolves with done: if (newVideoId)
\* setActiveVideoId(newVideoId); then `finally`.
VideoStreamEnd ==
    /\ site = "video" /\ phase = "reading"
    /\ phase' = "ended"
    /\ activeVideoId' = IF newVideoId # Null THEN newVideoId ELSE activeVideoId
    /\ VideoFinally
    /\ UNCHANGED <<generationProgress, videos, newVideoId, histVars>>
    /\ VideoRest

\* reader.read() rejects.
VideoReadFail == site = "video" /\ phase = "reading" /\ VideoCaught

\* api.get of fetchVideos settles: setVideos(data.videos || []) with the
\* videos the backend stores, or nothing when it rejected.
fetchVideos ==
    /\ fetchingVideos > 0
    /\ fetchingVideos' = fetchingVideos - 1
    /\ videos' \in {videos, {newVideoId} \ {Null}}
    /\ UNCHANGED <<isCreating, generationProgress, newVideoId, activeVideoId,
                   selectedDocId, histVars, phase>>
    /\ VideoRest

NextBusy ==
    \/ ResponseOpens
    \/ DocResponseCached \/ DocStartFails \/ ChatStartFails \/ VideoStartFails
    \/ SessionDocFrame \/ SessionChatFrame \/ VideoFrame
    \/ DocStreamEnd \/ ChatStreamEnd \/ VideoStreamEnd
    \/ DocReadFail \/ ChatReadFail \/ VideoReadFail
    \/ fetchVideos

\* The request and every read settle: a step that can be taken is taken.
SpecBusy == InitBusy /\ [][NextBusy]_vars /\ WF_vars(NextBusy)

-----------------------------------------------------------------------------
(* Wire text and the string operations the read loops use.                 *)

LF == "\n"
EventPrefix == <<"e", "v", "e", "n", "t", ":", " ">>     \* 'event: '
DataPrefix  == <<"d", "a", "t", "a", ":", " ">>          \* 'data: '

\* text.split('\n')
Split(text) ==
    LET F[i \in 0..Len(text)] ==
            IF i = 0 THEN << <<>> >>
            ELSE LET prev == F[i - 1]
                 IN  IF text[i] = LF THEN Append(prev, <<>>)
                     ELSE [prev EXCEPT ![Len(prev)] = Append(@, text[i])]
    IN  F[Len(text)]

\* line.startsWith(prefix)
StartsWith(line, prefix) ==
    Len(line) >= Len(prefix) /\ SubSeq(line, 1, Len(prefix)) = prefix

\* line.slice(n)
Slice(line, n) == SubSeq(line, n + 1, Len(line))

\* JSON.parse on the payload texts that occur here: a decimal number or the
\* empty object; anything else throws (ok = FALSE).
DigitValue(c) == IF c = "1" THEN 1 ELSE 2
IsNumberText(t) == t # <<>> /\ \A i \in 1..Len(t) : t[i] \in {"1", "2"}
NumberValue(t) ==
    LET F[i \in 0..Len(t)] == IF i = 0 THEN 0 ELSE 10 * F[i - 1] + DigitValue(t[i])
    IN  F[Len(t)]
JsonParse(t) ==
    IF IsNumberText(t) THEN [ok |-> TRUE, value |-> [number |-> NumberValue(t)]]
    ELSE IF t = <<"{", "}">> THEN [ok |-> TRUE, value |-> [object |-> {}]]
    ELSE [ok |-> FALSE, value |-> [error |-> "SyntaxError"]]

\* The text of one frame: 'event: L\ndata: P\n\n'
Wire(label, payload) ==
    EventPrefix \o label \o <<LF>> \o DataPrefix \o payload \o <<LF, LF>>

Labels   == {<<"a">>, <<"b">>}
Payloads == {<<"1">>, <<"{", "}">>}          \* well-formed JSON
BadPayloads == {<<"{">>}                      \* JSON.parse throws
WireFrames == {[label |-> l, payload |-> p] : l \in Labels, p \in Payloads \cup BadPayloads}
WellFormed(f) == f.payload \in Payloads
WireOf(f) == Wire(f.label, f.payload)
\* What the handler is to receive for frame f.
Parsed(f) == [label |-> f.label, data |-> JsonParse(f.payload).value]

-----------------------------------------------------------------------------
(* ChatInterface.handleSubmit: the body of the read loop for one chunk.    *)
(* currentEvent and currentData are declared inside the loop body.         *)

ChatLine(d, line) ==
    IF StartsWith(line, EventPrefix)
    THEN [d EXCEPT !.currentEvent = Slice(line, 7)]
    ELSE IF StartsWith(line, DataPrefix)
    THEN [d EXCEPT !.currentData = Slice(line, 6)]
    ELSE IF line = <<>> /\ d.currentEvent # <<>> /\ d.currentData # <<>>
    THEN [d EXCEPT
            !.out = IF JsonParse(d.currentData).ok
                    THEN Append(@, [label |-> d.currentEvent,
                                    data  |-> JsonParse(d.currentData).value])
                    ELSE @,
            !.currentEvent = <<>>,
            !.currentData = <<>>]
    ELSE IF line # <<>>
    THEN [d EXCEPT !.buffer = @ \o line \o <<LF>>]
    ELSE d

ChatDecodeChunk(buf, chunk) ==
    LET lines == Split(buf \o chunk)
        F[i \in 0..Len(lines)] ==
            IF i = 0
            THEN [buffer |-> <<>>, currentEvent |-> <<>>, currentData |-> <<>>,
                  out |-> <<>>]
            ELSE ChatLine(F[i - 1], lines[i])
    IN  F[Len(lines)]

(* DocViewer.generateDoc, VideoSidebar.handleCreateVideo and               *)
(* DocSidebar.handleCreateNew: the body of the read loop for one chunk     *)
(* (the three loops are the same text).  eventType is declared inside the  *)
(* loop body.                                                              *)

LineLine(d, line) ==
    IF StartsWith(line, EventPrefix)
    THEN [d EXCEPT !.eventType = Slice(line, 7)]
    ELSE IF StartsWith(line, DataPrefix) /\ d.eventType # <<>>
    THEN [d EXCEPT
            !.out = IF JsonParse(Slice(line, 6)).ok
                    THEN Append(@, [label |-> d.eventType,
                                    data  |-> JsonParse(Slice(line, 6)).value])
                    ELSE @,
            !.eventType = <<>>]
    ELSE d

LineDecodeChunk(buf, chunk) ==
    LET all == Split(buf \o chunk)
        lines == SubSeq(all, 1, Len(all) - 1)          \* after lines.pop()
        F[i \in 0..Len(lines)] ==
            IF i = 0
            THEN [buffer |-> all[Len(all)], eventType |-> <<>>, out |-> <<>>]
            ELSE LineLine(F[i - 1], lines[i])
    IN  F[Len(lines)]

-----------------------------------------------------------------------------
(* A response body read in chunks cut at arbitrary offsets.                *)

\* One frame, or a frame labelled a followed by a frame labelled b.
Streams ==
    {WireOf(f) : f \in WireFrames}
    \cup {WireOf(f) \o WireOf(g) :
            f \in {x \in WireFrames : x.label = <<"a">>},
            g \in {x \in WireFrames : x.label = <<"b">>}}

InitDecoder ==
    /\ site \in {"doc", "chat"}
    /\ InitReducer
    /\ stream \in Streams
    /\ pos = 0 /\ buffer = <<>> /\ delivered = <<>> /\ cuts = <<>>
    /\ OpenSession

\* reader.read() returns the next n characters; r is what the loop body makes
\* of them.
Chunk(n) == SubSeq(stream, pos + 1, pos + n)
CanRead  == pos < Len(stream) /\ Len(cuts) < MaxChunks
ReadChunk(n, r) ==
    /\ buffer' = r.buffer
    /\ delivered' = delivered \o r.out
    /\ pos' = pos + n
    /\ cuts' = Append(cuts, pos + n)
    /\ UNCHANGED <<site, redVars, stream, sessVars>>

ChatRead ==
    /\ site = "chat" /\ CanRead
    /\ \E n \in 1..(Len(stream) - pos) : ReadChunk(n, ChatDecodeChunk(buffer, Chunk(n)))
    /\ UNCHANGED <<callVars, panelVars>>

LineRead ==
    /\ site = "doc" /\ CanRead
    /\ \E n \in 1..(Len(stream) - pos) : ReadChunk(n, LineDecodeChunk(buffer, Chunk(n)))
    /\ UNCHANGED <<callVars, panelVars>>

NextDecoder == ChatRead \/ LineRead

SpecDecoder == InitDecoder /\ [][NextDecoder]_vars

-----------------------------------------------------------------------------
(* Properties of the decoders (SpecDecoder).                               *)

Frame1Sent(f) == WellFormed(f) /\ stream = WireOf(f)
AllRead == pos = Len(stream)
\* Offsets at which the label line and the data line of the first frame end.
LabelLineEnd(f) == Len(EventPrefix) + Len(f.label) + 1
DataLineEnd(f)  == LabelLineEnd(f) + Len(DataPrefix) + Len(f.payload) + 1

\* C1: chat decoder: a single well-formed frame cut into two chunks at any
\* offset is delivered to the reducer exactly once, as (L, P), the same as
\* when it arrives in one chunk.
C1_SplitFrameDeliveredOnce ==
    \A f \in WireFrames :
        (site = "chat" /\ Frame1Sent(f) /\ AllRead /\ Len(cuts) \in {1, 2})
            => delivered = <<Parsed(f)>>

\* C2: line-based decoders: a frame whose label line is completed in one
\* chunk and whose data line is completed only in a later chunk is still
\* delivered to the event handler exactly once.
C2_LabelAndDataInSeparateChunks ==
    \A f \in WireFrames :
        (/\ site = "doc" /\ Frame1Sent(f) /\ AllRead
         /\ \E i \in 1..Len(cuts) :
                cuts[i] >= LabelLineEnd(f) /\ cuts[i] < DataLineEnd(f))
            => delivered = <<Parsed(f)>>

\* A frame whose payload does not parse, followed by a well-formed frame
\* that no chunk boundary cuts.
BadThenGood(f, g) ==
    /\ ~WellFormed(f) /\ WellFormed(g)
    /\ stream = WireOf(f) \o WireOf(g)
    /\ \A i \in 1..Len(cuts) : cuts[i] <= Len(WireOf(f)) \/ cuts[i] = Len(stream)

\* Parse failures (SpecDecoder): the frame whose payload does not parse is
\* not handed to the handler, and the well-formed frame after it, in the same
\* chunk or in a later one, is.
ParseFailureDropped ==
    \A f, g \in WireFrames :
        (BadThenGood(f, g) /\ AllRead) => delivered = <<Parsed(g)>>

ParseFailureSeen ==
    \E f, g \in WireFrames :
        /\ BadThenGood(f, g) /\ AllRead /\ Len(cuts) = 3
        /\ delivered = <<Parsed(g)>>

\* The end of the last whole frame within the first p characters of the
\* stream (0: none); a frame ends with an empty line.
LastBoundary(p) ==
    Last({0} \cup {q \in 2..p : stream[q] = LF /\ stream[q - 1] = LF})

IsSuffix(a, b) == Len(a) <= Len(b) /\ SubSeq(b, Len(b) - Len(a) + 1, Len(b)) = a

\* C22 (SpecDecoder): the carry-over buffer is a tail of what has been
\* received of the frame now being received: it is empty whenever the text
\* received so far ends at a frame boundary and it never holds text of a
\* frame that is already over.
C22_BufferHoldsOnlyTail ==
    IsSuffix(buffer, SubSeq(stream, LastBoundary(pos) + 1, pos))

\* The same for the loop of generateDoc, handleCreateVideo and handleCreateNew.
LineBufferHoldsOnlyTail == site = "doc" => C22_BufferHoldsOnlyTail

\* Sequence a is b with some elements left out.
IsSubsequence(a, b) ==
    LET F[i \in 0..Len(a), j \in 0..Len(b)] ==
            IF i = 0 THEN TRUE
            ELSE IF j = 0 THEN FALSE
            ELSE LET skip == F[i, j - 1]
                 IN  IF a[i] = b[j] THEN (F[i - 1, j - 1] \/ skip) ELSE skip
    IN  F[Len(a), Len(b)]

\* C26 (SpecDecoder): whatever the chunking of a stream of well-formed
\* frames, each (label, payload) pair the chat decoder delivers is a frame
\* the source sent, and the delivered frames are in the order sent.
C26_ChatNeverFabricates ==
    \A f, g \in WireFrames :
        (site = "chat" /\ WellFormed(f) /\ WellFormed(g))
        => /\ stream = WireOf(f) => IsSubsequence(delivered, <<Parsed(f)>>)
           /\ stream = WireOf(f) \o WireOf(g)
                => IsSubsequence(delivered, <<Parsed(f), Parsed(g)>>)

-----------------------------------------------------------------------------
(* Properties of the session drivers (SpecSession).                        *)

\* Handling a frame with payload null throws.
Throws(label) ==
    \/ /\ site = "doc"
       /\ \/ label \in {"status", "tool_call", "complete", "error"}
          \/ NullFaultsInRender(DocState, label)
    \/ /\ site = "chat"
       /\ label # "complete"
       /\ label = "tool_result" => ToolCalls(steps) # {}

\* C11 (SpecSession): a frame whose handling raises a fault is dropped: the
\* timeline is as before the frame, the fault does not leave the read loop,
\* and the loop goes on to hand later frames to the handler.  (The half of
\* the claim about payloads that do not parse is ParseFailureDropped.)
C11_FaultyFrameDropped ==
    [][(/\ nApplied' = nApplied + 1
        /\ IsNull(last'.data) /\ Throws(last'.label))
        => /\ agentSteps' = agentSteps /\ steps' = steps
           /\ fault' = "none"
      ]_vars

\* C14 (SpecSession): once DocViewer's target has changed while the stream
\* was open, no frame read from that stream changes the document, the
\* failure reason or the timeline shown for the new target.
C14_AbandonedStreamIsInert ==
    [][(target # "current" /\ nApplied' = nApplied + 1)
        => (doc' = doc /\ error' = error /\ agentSteps' = agentSteps)
      ]_vars

\* C15 (SpecSession): when the stream of a document generation has ended
\* normally and no complete or error frame was applied, the driver has marked
\* the operation as failed: DocViewer holds a failure reason.
C15_IncompleteSessionMarkedFailed ==
    (site = "doc" /\ phase = "ended" /\ ~terminal) => error # Null

\* C16 (SpecSession): when reader.read() rejects before a complete or error
\* frame, the timeline stays as the last frame left it: every step keeps its
\* status, text and outputs and none is removed (DocViewer's agentSteps; the
\* chat's currentSteps and the assistant message's agentSteps).
C16_TransportFailureKeepsTimeline ==
    [][(phase = "reading" /\ phase' = "failed" /\ ~terminal)
        => /\ agentSteps' = agentSteps
           /\ currentSteps' = currentSteps
           /\ msgAgentSteps' = msgAgentSteps
      ]_vars

-----------------------------------------------------------------------------
(* Properties of the reducers.                                             *)

Applies(label) == nApplied' = nApplied + 1 /\ last'.label = label
OpenStatus == {"running", "pending"}
NoOpenStep(ss) == \A i \in 1..Len(ss) : ss[i].status \notin OpenStatus

\* C3 (SpecScenario): document generation: a tool_result frame carrying id k
\* completes exactly the step created by the tool_call frame carrying id k, and
\* leaves every other step as it was.
C3_ResultBindsById ==
    [][\A i \in 1..Len(agentSteps) :
        (/\ site = "doc" /\ Applies("tool_result")
         /\ last'.data.id # Undefined
         /\ origin[i].label = "tool_call" /\ origin[i].data.id = last'.data.id
         /\ agentSteps[i].status = "running")
        => /\ agentSteps'[i].status = "completed"
           /\ \A j \in 1..Len(agentSteps) : j # i => agentSteps'[j] = agentSteps[j]
      ]_vars

\* C4 (Spec): right after a complete frame no step of the document timeline
\* or of the chat timeline is running or pending.
C4_NoOpenStepAfterComplete ==
    last.label = "complete" =>
        /\ NoOpenStep(agentSteps)
        /\ NoOpenStep(steps) /\ NoOpenStep(currentSteps) /\ NoOpenStep(msgAgentSteps)

\* A complete frame swept a tool call that had no result and a thinking step.
C4_Witness ==
    /\ last.label = "complete"
    /\ \E i, j \in 1..Len(agentSteps) :
        /\ agentSteps[i].type = "tool-call" /\ agentSteps[i].output = Undefined
        /\ agentSteps[j].type = "thinking"

\* C5 (Spec): after an error frame every step has status error or was
\* completed before the frame and still is; none is running or pending.
C5_ErrorSweepsOpenSteps ==
    [][Applies("error") =>
        \A ss \in {<<agentSteps, agentSteps'>>, <<steps, steps'>>} :
            \A i \in 1..Len(ss[2]) :
                \/ ss[2][i].status = "error"
                \/ /\ i <= Len(ss[1])
                   /\ ss[1][i].status = "completed" /\ ss[2][i].status = "completed"
      ]_vars

\* C6 (Spec): once a complete or error frame has been applied, no later
\* frame changes the timeline, the session result or the failure reason.
C6_TerminalIgnoresLaterFrames ==
    [][terminal =>
        /\ agentSteps' = agentSteps /\ doc' = doc /\ error' = error
        /\ steps' = steps /\ currentSteps' = currentSteps
        /\ msgContent' = msgContent /\ msgAgentSteps' = msgAgentSteps
      ]_vars

\* C7 (Spec): the number of tool-call steps in the timeline equals the
\* number of tool_call frames applied so far.
C7_ToolCallStepsCountCalls ==
    /\ site = "doc"  => Cardinality(ToolCalls(agentSteps)) = nCalls
    /\ site = "chat" => Cardinality(ToolCalls(steps)) = nCalls

\* Two calls of the same tool were applied, then a result.
C7_Witness ==
    /\ nCalls = 2 /\ last.label = "tool_result" /\ site = "doc"
    /\ Len(agentSteps) = 2 /\ agentSteps[1].toolName = agentSteps[2].toolName

\* C8 (SpecScenario): status "Exploring" then "Reading src/" yield exactly
\* one thinking step, with text "Reading src/" under REPLACE (document
\* generation, status frames) and "ExploringReading src/" under APPEND (chat,
\* thinking frames).
C8_StatusUpdatesLiveThinkingStep ==
    /\ (site = "doc" /\ hist = <<StatusFrame("Exploring"), StatusFrame("Reading src/")>>)
        => /\ Cardinality(Thinkings(agentSteps)) = 1
           /\ \A i \in 1..Len(agentSteps) : agentSteps[i].text = "Reading src/"
    /\ (site = "chat" /\ hist = <<ThinkingFrame("Exploring"), ThinkingFrame("Reading src/")>>)
        => /\ Cardinality(Thinkings(steps)) = 1
           /\ \A i \in 1..Len(steps) : steps[i].text = "ExploringReading src/"

C9Script ==
    <<StatusFrame("Starting"),
      ToolCallFrame("listTree", "1"),
      ToolResultFrame("listTree", "1", "12 items"),
      ToolCallFrame("readFile", "2"),
      CompleteFrame("doc-1")>>

\* C9 (SpecScenario): status, tool_call(listTree,1), tool_result(listTree,1,
\* "12 items"), tool_call(readFile,2), complete(document) applied to an empty
\* timeline leave 1 thinking step and 2 tool-call steps, both completed, the
\* first with output "12 items", the second without output, and the document
\* set to the carried one.
C9_EndToEndScenario ==
    (site = "doc" /\ hist = C9Script) =>
        /\ Len(agentSteps) = 3
        /\ Cardinality(Thinkings(agentSteps)) = 1
        /\ Cardinality(ToolCalls(agentSteps)) = 2
        /\ agentSteps[2].type = "tool-call" /\ agentSteps[2].toolName = "listTree"
        /\ agentSteps[2].status = "completed" /\ agentSteps[2].output = "12 items"
        /\ agentSteps[3].type = "tool-call" /\ agentSteps[3].toolName = "readFile"
        /\ agentSteps[3].status = "completed" /\ agentSteps[3].output = Undefined
        /\ doc = "doc-1"

C9_Witness == site = "doc" /\ hist = C9Script /\ last = CompleteFrame("doc-1")

\* C10 (Spec): a tool-call step that is completed or error is changed by no
\* later frame (complete and error sweeps included).
C10_ResolvedStepImmutable ==
    [][\A ss \in {<<agentSteps, agentSteps'>>, <<steps, steps'>>} :
        \A i \in 1..Len(ss[1]) :
            (ss[1][i].type = "tool-call" /\ ss[1][i].status \in {"completed", "error"})
                => (i <= Len(ss[2]) /\ ss[2][i] = ss[1][i])
      ]_vars

\* The tool_result frame being applied finds no step to resolve: DocViewer
\* looks for a running tool-call step, the chat for a running tool-call step
\* of the frame's tool.
Dangling(data) ==
    /\ site = "doc"  => RunningTools(agentSteps) = {}
    /\ site = "chat" =>
        {k \in RunningTools(steps) : steps[k].toolName = data.tool} = {}

\* C12 (Spec): a tool_result frame that finds no running tool-call step is
\* dropped: the timeline is as before the frame (the chat publishes that same
\* timeline), no failure reason is set and nothing else of the reducer's
\* state changes, so later frames are reduced as if the frame had not come.
C12_DanglingResultDropped ==
    [][(Applies("tool_result") /\ Dangling(last'.data))
        => /\ agentSteps' = agentSteps /\ doc' = doc /\ error' = error
           /\ steps' = steps /\ currentSteps' = steps
           /\ assistantContent' = assistantContent
           /\ msgContent' = msgContent /\ msgAgentSteps' = msgAgentSteps
           /\ sessionId' = sessionId /\ sessionError' = sessionError
           /\ uuid' = uuid
      ]_vars

\* A result was applied to a timeline that has steps and resolved none.
C12_Witness ==
    /\ last.label = "tool_result"
    /\ \/ /\ site = "doc" /\ agentSteps # <<>>
          /\ \A i \in 1..Len(agentSteps) : agentSteps[i].output # last.data.summary
       \/ /\ site = "chat" /\ ToolCalls(steps) # {}
          /\ \A i \in 1..Len(steps) : steps[i].output # last.data.summary

\* The step with the identity of s is in the list.
Present(s, list) == \E j \in 1..Len(list) : list[j].id = s.id

\* C13 (Spec): a step that is in a timeline handed to the observer
\* (DocViewer's agentSteps, the chat's currentSteps and the assistant
\* message's agentSteps) after some frame is still in it after every later
\* frame.
C13_TimelineAppendOnly ==
    [][\A ss \in {<<agentSteps, agentSteps'>>, <<currentSteps, currentSteps'>>,
                  <<msgAgentSteps, msgAgentSteps'>>} :
        \A i \in 1..Len(ss[1]) : Present(ss[1][i], ss[2])
      ]_vars

\* C17 (Spec): right after an error frame with message m the failure reason
\* the consumer holds is m: DocViewer's error, the chat's sessionError (the
\* only failure reason ChatInterface keeps).
C17_ErrorFrameSetsFailureReason ==
    last.label = "error" =>
        /\ site = "doc"  => error = last.data.message
        /\ site = "chat" => sessionError = last.data.message

\* Timeline `after` is `before` plus one running tool-call step made from
\* the tool_call payload: the frame's id as toolCallId when it carries one, a
\* fresh key otherwise.
AppendsCallStep(before, after, data) ==
    /\ Len(after) = Len(before) + 1
    /\ SubSeq(after, 1, Len(before)) = before
    /\ LET s == after[Len(after)]
       IN  /\ s.type = "tool-call" /\ s.status = "running"
           /\ s.toolName = data.tool /\ s.input = data.args
           /\ IF data.id # Undefined
              THEN s.toolCallId = data.id
              ELSE /\ s.toolCallId # Undefined
                   /\ \A i \in 1..Len(before) : before[i].toolCallId # s.toolCallId

\* C18 (Spec): a tool_call frame appends a running tool-call step whose
\* toolCallId is the frame's id when it carries one and a fresh key only when
\* it carries none, with toolName and input taken from tool and args.
C18_ToolCallStepFromFrame ==
    [][Applies("tool_call") =>
        /\ site = "doc"  => AppendsCallStep(agentSteps, agentSteps', last'.data)
        /\ site = "chat" => AppendsCallStep(steps, steps', last'.data)
      ]_vars

\* C19 (Spec): a step that a tool_result frame changes gets the frame's
\* summary as output, the frame's output as fullOutput and status completed;
\* and once a step has an output or a fullOutput, no frame changes either.
C19_OutputWrittenOnce ==
    [][\A ss \in {<<agentSteps, agentSteps'>>, <<steps, steps'>>} :
        \A i \in 1..Len(ss[1]) :
            /\ i <= Len(ss[2])
            /\ (Applies("tool_result") /\ ss[2][i] # ss[1][i])
                => /\ ss[2][i].output = last'.data.summary
                   /\ ss[2][i].fullOutput = last'.data.output
                   /\ ss[2][i].status = "completed"
            /\ (ss[1][i].output # Undefined \/ ss[1][i].fullOutput # Undefined)
                => /\ ss[2][i].output = ss[1][i].output
                   /\ ss[2][i].fullOutput = ss[1][i].fullOutput
      ]_vars

\* A step was resolved, two more frames were applied and then an error
\* frame: the step still has the output and fullOutput of its result.
C19_Witness ==
    /\ last.label = "error" /\ nApplied = 4
    /\ \E ss \in {agentSteps, steps} :
        /\ Len(ss) = 1
        /\ ss[1].status \in {"error", "completed"}
        /\ ss[1].output = "12 items" /\ ss[1].fullOutput = OutputOf("12 items")
        /\ origin = <<ToolCallFrame("listTree", "1")>>

\* The running tool-call steps of the chat timeline that carry tool t.
RunningNamed(t) ==
    {k \in 1..Len(steps) :
        /\ steps[k].type = "tool-call" /\ steps[k].status = "running"
        /\ steps[k].toolName = t}

\* C20 (Spec): in the chat a tool_result frame for tool t resolves exactly
\* one step, the most recently created running tool-call step of tool t, and
\* leaves every other step as it was.
C20_NameFallbackResolvesLatest ==
    [][(site = "chat" /\ Applies("tool_result") /\ RunningNamed(last'.data.tool) # {})
        => LET M == RunningNamed(last'.data.tool)
               k == CHOOSE m \in M : \A j \in M : j <= m
           IN  /\ Len(steps') = Len(steps)
               /\ steps'[k].status = "completed"
               /\ steps'[k].output = last'.data.summary
               /\ steps'[k].fullOutput = last'.data.output
               /\ \A j \in 1..Len(steps) : j # k => steps'[j] = steps[j]
      ]_vars

\* Two calls of one tool were running and a result for it came: the later
\* step is completed, the earlier one is still running.
C20_Witness ==
    /\ site = "chat" /\ last.label = "tool_result"
    /\ Len(steps) = 2
    /\ steps[1].toolName = last.data.tool /\ steps[2].toolName = last.data.tool
    /\ steps[1].status = "running"
    /\ steps[2].status = "completed" /\ steps[2].output = last.data.summary

\* The text fields of the text frames of h, concatenated in order.
ConcatText(h) ==
    LET F[i \in 0..Len(h)] ==
            IF i = 0 THEN ""
            ELSE LET prev == F[i - 1]
                 IN  IF h[i].label = "text" THEN prev \o h[i].data.text ELSE prev
    IN  F[Len(h)]

\* C21 (SpecScenario): in the chat the content of the assistant message is
\* the concatenation, in arrival order, of the text fields of the text frames
\* applied so far; frames of other labels leave it as it is.
C21_ContentIsConcatenatedText ==
    site = "chat" => msgContent = ConcatText(hist)

\* Two different text frames with another frame between them, then complete.
C21_Witness ==
    /\ site = "chat" /\ msgContent = "Hi there"
    /\ Len(hist) = 4 /\ hist[2].label = "tool_call" /\ last.label = "complete"

\* C24 (Spec): in document generation a thinking frame that finds no
\* thinking step in the timeline appends one running thinking step that
\* carries the frame's text.
C24_FirstThinkingFrameCreatesStep ==
    [][(site = "doc" /\ Applies("thinking") /\ Thinkings(agentSteps) = {})
        => /\ Len(agentSteps') = Len(agentSteps) + 1
           /\ SubSeq(agentSteps', 1, Len(agentSteps)) = agentSteps
           /\ LET s == agentSteps'[Len(agentSteps')]
              IN  s.type = "thinking" /\ s.status = "running"
                  /\ s.text = last'.data.text
      ]_vars

\* Steps a and b agree on the fields that are set at creation.
SameIdentity(a, b) ==
    a.id = b.id /\ a.type = b.type /\ a.toolName = b.toolName /\ a.input = b.input

\* C25 (Spec): no frame changes the id, type, toolName or input of a step
\* that is already in the timeline: a step keeps them at its place in the
\* reducer's list, and wherever a step of the same id is handed to the
\* observer (currentSteps, the assistant message's agentSteps).
C25_CreationFieldsImmutable ==
    [][/\ \A ss \in {<<agentSteps, agentSteps'>>, <<steps, steps'>>} :
            \A i \in 1..Len(ss[1]) :
                i <= Len(ss[2]) /\ SameIdentity(ss[1][i], ss[2][i])
       /\ \A ss \in {<<steps, currentSteps'>>, <<steps, msgAgentSteps'>>} :
            \A i \in 1..Len(ss[1]) : \A j \in 1..Len(ss[2]) :
                ss[2][j].id = ss[1][i].id => SameIdentity(ss[1][i], ss[2][j])
      ]_vars

\* A result for one tool has just resolved a step of the other tool, whose
\* toolName and input are still those of its tool_call frame.
C25_Witness ==
    /\ site = "doc" /\ last.label = "tool_result"
    /\ \E i \in 1..Len(agentSteps) :
        /\ agentSteps[i].output = last.data.summary
        /\ agentSteps[i].toolName # last.data.tool
        /\ agentSteps[i].toolName = origin[i].data.tool
        /\ agentSteps[i].input = origin[i].data.args

\* C27 (Spec): in document generation a tool_result frame for tool t
\* completes no step whose toolName is not t.
C27_ResultCompletesOwnTool ==
    [][(site = "doc" /\ Applies("tool_result"))
        => \A i \in 1..Len(agentSteps) :
            (agentSteps[i].status = "running" /\ agentSteps'[i].status = "completed")
                => agentSteps[i].toolName = last'.data.tool
      ]_vars

-----------------------------------------------------------------------------
(* Properties of the calls on one DocViewer (SpecRegen).                   *)

\* A call of generateDoc starts on an empty timeline.
SessionStartsEmpty == [][started' # started => agentSteps' = <<>>]_vars

\* C23 (SpecRegen): a session starts from fresh state, so that the timeline
\* holds no step of an earlier session: every step in it was created by a
\* frame of the call of generateDoc that started last.
C23_NoStepOfEarlierSession ==
    \A i \in 1..Len(owner) : owner[i] = started[Len(started)]

\* C28 (SpecRegen): while one call of generateDoc is reading its stream no
\* other call has started: none is awaiting its response or reading.
C28_OneSessionAtATime ==
    \A s, r \in Sessions :
        (s # r /\ pc[s] = "reading") => pc[r] \notin {"fetching", "reading"}

-----------------------------------------------------------------------------
(* Properties of DocSidebar (SpecSidebar).                                 *)

\* C29 (SpecSidebar): activeDoc is always 'chat', one of the six built-in
\* document types, or the id of a document in customDocs.
C29_SelectionIsValid == activeDoc \in {"chat"} \cup BuiltIn \cup customDocs

-----------------------------------------------------------------------------
(* Properties of one session from request to end (SpecBusy).               *)

\* The busy flag of the driver the behaviour is about.
Busy == IF site = "video" THEN isCreating ELSE isLoading

\* A session that is over has cleared its busy flag.
OverIsNotBusy == phase \in {"ended", "failed"} => ~Busy

\* C30 (SpecBusy): every started session eventually clears its busy flag,
\* isLoading of DocViewer and ChatInterface and isCreating of VideoSidebar,
\* for good, however the session ends.
C30_BusyFlagCleared == <>[](~isLoading /\ ~isCreating)

\* A video session that handled a 'complete' frame has ended and isCreating
\* is false again.
C30_Witness ==
    /\ site = "video" /\ phase = "ended" /\ terminal
    /\ activeVideoId = "video-1" /\ ~isCreating

====
